---- MODULE Spec2Model ----
(***************************************************************************)
(* A single Kademlia node: KademliaProtocol of kademlia/protocol.py, its   *)
(* routing table, its key/value store, its blob files and the store calls  *)
(* it has launched and not yet seen answered.                              *)
(***************************************************************************)
EXTENDS Integers, Sequences, FiniteSets, Bags, TLC

\* ------------------------------------------------------------------ bounds
\* Width of an identifier in bits (160 in the program).
IdBits == 3
\* ksize, the capacity of a bucket and the length of a neighbour list.
KSize == 2
\* Largest number of launched store calls that are unanswered at one time.
MaxInflight == 2

\* ------------------------------------------------------------ identifiers
IdSpace == 0 .. (2 ^ IdBits - 1)

\* self.source_node.id
SelfId == 5

\* The keys peers ask about, and the keys of the blob files.
Keys == {2, 6}
FileKeys == {2}

\* None in the place of a node or of a key: exclude=None of find_neighbors,
\* and the argument an operation does not take.
NoId == -1

Bit(n, i) == (n \div (2 ^ i)) % 2

RECURSIVE XorFrom(_, _, _)
XorFrom(a, b, i) ==
  IF i >= IdBits THEN 0
  ELSE (((Bit(a, i) + Bit(b, i)) % 2) * (2 ^ i)) + XorFrom(a, b, i + 1)

\* The XOR of every two identifiers.
XorTable == [a \in IdSpace |-> [b \in IdSpace |-> XorFrom(a, b, 0)]]

\* Node.distance_to: the XOR of the two identifiers
Distance(a, b) == XorTable[a][b]

\* kademlia.utils.digest: a hash of the key onto the identifier space; the
\* stand-in has no fixed point, as a cryptographic hash has none in practice.
Digest(key) == (5 * key + 3) % (2 ^ IdBits)

\* ----------------------------------------------------------------- values
PyNone == [type |-> "NoneType", data |-> <<>>]
Bytes(d) == [type |-> "bytes", data |-> d]
Str(d) == [type |-> "str", data |-> d]

\* Values a peer may send in a store request.
Values == {PyNone, Bytes(<<>>), Bytes(<<"x">>)}

\* Values a peer may send in a blob-store request: binary ones, and text ones
\* that take the text fallback.
BlobValues == {Bytes(<<"x">>), Bytes(<<"CR">>), Str(<<"a">>), Str(<<"CR", "LF">>)}

\* The transport's results: (False, None) on a timeout, (True, payload) else.
Results == {<<FALSE, "None">>, <<TRUE, "payload">>}

\* ---------------------------------------------------------- routing table
\* A bucket is [lo, hi, nodes]: a range of distances to SelfId and the
\* contacts in it, most recently seen last.
InitBuckets == << [lo |-> 0, hi |-> 2 ^ IdBits - 1, nodes |-> <<>>] >>

SeqToSet(s) == {s[i] : i \in 1 .. Len(s)}

RECURSIVE SeqFilter(_, _)
SeqFilter(s, keep) ==
  IF s = <<>> THEN <<>>
  ELSE (IF Head(s) \in keep THEN <<Head(s)>> ELSE <<>>) \o SeqFilter(Tail(s), keep)

\* Every contact of the table.
Contacts(bs) == UNION {SeqToSet(bs[i].nodes) : i \in 1 .. Len(bs)}

GetBucketFor(bs, id) ==
  CHOOSE i \in 1 .. Len(bs) :
    bs[i].lo <= Distance(id, SelfId) /\ Distance(id, SelfId) <= bs[i].hi

IsNewNode(bs, id) == id \notin SeqToSet(bs[GetBucketFor(bs, id)].nodes)

RemoveContact(bs, id) ==
  LET i == GetBucketFor(bs, id)
  IN [bs EXCEPT ![i].nodes = SeqFilter(bs[i].nodes, SeqToSet(bs[i].nodes) \ {id})]

\* The bucket the contact belongs to has a free place.
HasRoom(bs, id) == Len(bs[GetBucketFor(bs, id)].nodes) < KSize

\* The bucket's range contains the owner's own identifier (distance 0).
CanSplit(b) == b.lo = 0 /\ b.lo < b.hi

SplitBucket(bs, i) ==
  LET b == bs[i]
      mid == (b.lo + b.hi) \div 2
      low == {n \in SeqToSet(b.nodes) : Distance(n, SelfId) <= mid}
      one == [lo |-> b.lo, hi |-> mid, nodes |-> SeqFilter(b.nodes, low)]
      two == [lo |-> mid + 1, hi |-> b.hi,
              nodes |-> SeqFilter(b.nodes, SeqToSet(b.nodes) \ low)]
  IN SubSeq(bs, 1, i - 1) \o <<one, two>> \o SubSeq(bs, i + 1, Len(bs))

RECURSIVE AddContact(_, _)
AddContact(bs, id) ==
  LET i == GetBucketFor(bs, id)
      b == bs[i]
  IN IF id \in SeqToSet(b.nodes)
       THEN [bs EXCEPT ![i].nodes =
               SeqFilter(b.nodes, SeqToSet(b.nodes) \ {id}) \o <<id>>]
     ELSE IF Len(b.nodes) < KSize
       THEN [bs EXCEPT ![i].nodes = Append(b.nodes, id)]
     ELSE IF CanSplit(b)
       THEN AddContact(SplitBucket(bs, i), id)
     ELSE bs

RECURSIVE SortByDistance(_, _)
SortByDistance(S, target) ==
  IF S = {} THEN <<>>
  ELSE LET m == CHOOSE x \in S :
                  \A y \in S : Distance(x, target) <= Distance(y, target)
       IN <<m>> \o SortByDistance(S \ {m}, target)

FindNeighbors(bs, target, exclude, count) ==
  LET sorted == SortByDistance(Contacts(bs) \ {exclude}, target)
  IN SubSeq(sorted, 1, IF Len(sorted) < count THEN Len(sorted) ELSE count)

\* ------------------------------------------------------------------ state
VARIABLES
  buckets,    \* self.router: the buckets of the routing table
  storage,    \* self.storage: held key -> value
  kad_files,  \* files_path/<key>.kad: key -> bytes written
  txt_files,  \* data_path/<key>.txt: key -> characters written
  inflight,   \* bag of launched store calls <<node, key, value>> not yet answered
  ev          \* the operation that ran last, its arguments and what it returned

vars == <<buckets, storage, kad_files, txt_files, inflight, ev>>

NoResult == <<FALSE, "-">>
NoRet == [kind |-> "none", val |-> 0]

Event(op, node, key, value, result, ret, passes) ==
  [op |-> op, node |-> node, key |-> key, value |-> value, result |-> result,
   ret |-> ret, passes |-> passes,
   wasNew |-> IF node = NoId THEN FALSE ELSE IsNewNode(buckets, node),
   hadRoom |-> IF node = NoId THEN FALSE ELSE HasRoom(buckets, node),
   lonely |-> <<>>]

\* A dict without entries.
EmptyDict == [k \in {} |-> PyNone]

Init ==
  /\ buckets = InitBuckets
  /\ storage = EmptyDict
  /\ kad_files = EmptyDict
  /\ txt_files = EmptyDict
  /\ inflight = EmptyBag
  /\ ev = [op |-> "init", node |-> NoId, key |-> NoId, value |-> PyNone,
           result |-> NoResult, ret |-> NoRet, passes |-> <<>>,
           wasNew |-> FALSE, hadRoom |-> FALSE, lonely |-> <<>>]

\* ------------------------------------------------------------- operations
\* d[key] = value of a dict
DictSet(d, key, value) ==
  [k \in DOMAIN d \cup {key} |-> IF k = key THEN value ELSE d[k]]

\* del d[key], nothing when the key is absent
DictDel(d, key) == [k \in DOMAIN d \ {key} |-> d[k]]

\* self.storage.get(key, default)
StorageGet(st, key, default) == IF key \in DOMAIN st THEN st[key] ELSE default

\* The keys of a dict in the order the iteration yields them.
RECURSIVE KeysInOrder(_)
KeysInOrder(S) ==
  IF S = {} THEN <<>>
  ELSE LET m == CHOOSE x \in S : \A y \in S : x <= y
       IN <<m>> \o KeysInOrder(S \ {m})

\* The neighbours welcome_if_new ranks for a held key: those of the node made
\* of the digest of the key.
KeyNeighbors(bs, key) == FindNeighbors(bs, Digest(key), NoId, KSize)

\* The condition of welcome_if_new under which key is sent to the new node.
ShouldStore(bs, node, key) ==
  LET keynode == Digest(key)
      neighbors == KeyNeighbors(bs, key)
      last == Distance(neighbors[Len(neighbors)], keynode)
      new_node_close == Distance(node, keynode) < last
      first == Distance(neighbors[1], keynode)
      this_closest == Distance(SelfId, keynode) < first
  IN neighbors = <<>> \/ (new_node_close /\ this_closest)

RECURSIVE StoreCalls(_, _, _, _)
StoreCalls(bs, st, node, keys) ==
  IF keys = <<>> THEN <<>>
  ELSE (IF ShouldStore(bs, node, Head(keys))
          THEN << <<node, Head(keys), st[Head(keys)]>> >> ELSE <<>>)
       \o StoreCalls(bs, st, node, Tail(keys))

\* welcome_if_new that adds the contact first and decides on the table with it
WelcomeIfNewInsertsFirst(bs, st, node) ==
  IF ~IsNewNode(bs, node)
    THEN [buckets |-> bs, launched |-> <<>>]
    ELSE [buckets |-> AddContact(bs, node),
          launched |-> StoreCalls(AddContact(bs, node), st, node,
                                  KeysInOrder(DOMAIN st))]

\* welcome_if_new: the table after it and the store calls it launched
WelcomeIfNew(bs, st, node) ==
  IF ~IsNewNode(bs, node)
    THEN [buckets |-> bs, launched |-> <<>>]
    ELSE [buckets |-> AddContact(bs, node),
          launched |-> StoreCalls(bs, st, node, KeysInOrder(DOMAIN st))]

\* handle_call_response that leaves the contact of a failed call in the table
HandleCallResponseKeeps(bs, st, result, node) ==
  IF ~result[1]
    THEN [buckets |-> bs, launched |-> <<>>, ret |-> result]
    ELSE LET w == WelcomeIfNew(bs, st, node)
         IN [buckets |-> w.buckets, launched |-> w.launched, ret |-> result]

\* handle_call_response that welcomes the contact whatever the result says
HandleCallResponseAdmitsFailed(bs, st, result, node) ==
  LET w == WelcomeIfNew(bs, st, node)
  IN [buckets |-> w.buckets, launched |-> w.launched, ret |-> result]

\* handle_call_response that returns the success flag without the payload
HandleCallResponseDropsPayload(bs, st, result, node) ==
  IF ~result[1]
    THEN [buckets |-> RemoveContact(bs, node), launched |-> <<>>,
          ret |-> <<result[1], "None">>]
    ELSE LET w == WelcomeIfNew(bs, st, node)
         IN [buckets |-> w.buckets, launched |-> w.launched,
             ret |-> <<result[1], "None">>]

\* handle_call_response that empties the whole table on a failed call
HandleCallResponseFlushes(bs, st, result, node) ==
  IF ~result[1]
    THEN [buckets |-> [i \in 1 .. Len(bs) |-> [bs[i] EXCEPT !.nodes = <<>>]],
          launched |-> <<>>, ret |-> result]
    ELSE LET w == WelcomeIfNew(bs, st, node)
         IN [buckets |-> w.buckets, launched |-> w.launched, ret |-> result]

\* handle_call_response: the table after it, the calls launched, the return
HandleCallResponse(bs, st, result, node) ==
  IF ~result[1]
    THEN [buckets |-> RemoveContact(bs, node), launched |-> <<>>, ret |-> result]
    ELSE LET w == WelcomeIfNew(bs, st, node)
         IN [buckets |-> w.buckets, launched |-> w.launched, ret |-> result]

RECURSIVE Launch(_, _)
Launch(bag, calls) ==
  IF calls = <<>> THEN bag
  ELSE Launch(bag (+) SetToBag({Head(calls)}), Tail(calls))

\* asyncio.ensure_future(self.call_store(...)) for every call of the passes
Launched(passes) ==
  /\ inflight' = Launch(Launch(inflight, IF Len(passes) >= 1 THEN passes[1] ELSE <<>>),
                        IF Len(passes) >= 2 THEN passes[2] ELSE <<>>)
  /\ BagCardinality(inflight') <= MaxInflight

\* f.read() of a file opened in text mode: "\r\n" and "\r" are read as "\n"
RECURSIVE ReadText(_)
ReadText(chars) ==
  IF chars = <<>> THEN <<>>
  ELSE IF Head(chars) = "CR"
    THEN <<"LF">> \o ReadText(IF Len(chars) >= 2 /\ chars[2] = "LF"
                                THEN Tail(Tail(chars)) ELSE Tail(chars))
  ELSE <<Head(chars)>> \o ReadText(Tail(chars))

\* ---------------------------------------------------------------- refresh
\* int.to_bytes(20, byteorder='big'): the identifier with that number, and an
\* OverflowError for a number that does not fit the identifier's width.
ToBytes(n) == IF n \in IdSpace THEN n ELSE NoId

\* What get_refresh_ids returns for the numbers drawn, in the order of the
\* lonely buckets.
RefreshIds(lonely, draw) ==
  LET order == KeysInOrder(lonely)
      ids == [i \in 1 .. Len(order) |-> ToBytes(draw[order[i]])]
  IN IF \E i \in 1 .. Len(order) : ids[i] = NoId
       THEN [kind |-> "raise", val |-> "OverflowError"]
       ELSE [kind |-> "ids", val |-> ids]

\* get_refresh_ids that draws its numbers from the whole identifier space
GetRefreshIdsAnywhere(lonely, draw) ==
  /\ ev' = [Event("get_refresh_ids", NoId, NoId, PyNone, NoResult,
                  RefreshIds(lonely, draw), <<>>)
              EXCEPT !.lonely = KeysInOrder(lonely)]
  /\ UNCHANGED <<buckets, storage, kad_files, txt_files, inflight>>

\* get_refresh_ids: lonely are the buckets lonely_buckets() returns at the
\* time of the call (the clock decides), draw[b] is random.randint(*b.range).
GetRefreshIds(lonely, draw) ==
  /\ \A b \in lonely : buckets[b].lo <= draw[b] /\ draw[b] <= buckets[b].hi
  /\ ev' = [Event("get_refresh_ids", NoId, NoId, PyNone, NoResult,
                  RefreshIds(lonely, draw), <<>>)
              EXCEPT !.lonely = KeysInOrder(lonely)]
  /\ UNCHANGED <<buckets, storage, kad_files, txt_files, inflight>>

\* ---------------------------------------------------------- inbound RPCs
RpcStun(sender) ==
  /\ ev' = Event("rpc_stun", sender, NoId, PyNone, NoResult,
                 [kind |-> "addr", val |-> sender], <<>>)
  /\ UNCHANGED <<buckets, storage, kad_files, txt_files, inflight>>

RpcPing(nodeid) ==
  LET w == WelcomeIfNew(buckets, storage, nodeid)
  IN /\ buckets' = w.buckets
     /\ Launched(<<w.launched>>)
     /\ ev' = Event("rpc_ping", nodeid, NoId, PyNone, NoResult,
                    [kind |-> "id", val |-> SelfId], <<w.launched>>)
     /\ UNCHANGED <<storage, kad_files, txt_files>>

\* rpc_store that writes the value before it welcomes the sender
RpcStoreWritesFirst(nodeid, key, value) ==
  LET w == WelcomeIfNew(buckets, DictSet(storage, key, value), nodeid)
  IN /\ buckets' = w.buckets
     /\ Launched(<<w.launched>>)
     /\ storage' = DictSet(storage, key, value)
     /\ ev' = Event("rpc_store", nodeid, key, value, NoResult,
                    [kind |-> "bool", val |-> TRUE], <<w.launched>>)
     /\ UNCHANGED <<kad_files, txt_files>>

RpcStore(nodeid, key, value) ==
  LET w == WelcomeIfNew(buckets, storage, nodeid)
  IN /\ buckets' = w.buckets
     /\ Launched(<<w.launched>>)
     /\ storage' = DictSet(storage, key, value)
     /\ ev' = Event("rpc_store", nodeid, key, value, NoResult,
                    [kind |-> "bool", val |-> TRUE], <<w.launched>>)
     /\ UNCHANGED <<kad_files, txt_files>>

RpcFileStore(node_id, key, value) ==
  LET w == WelcomeIfNew(buckets, storage, node_id)
  IN /\ buckets' = w.buckets
     /\ Launched(<<w.launched>>)
     /\ IF value.type = "bytes"
          THEN /\ kad_files' = DictSet(kad_files, key, value.data)
               /\ UNCHANGED txt_files
          ELSE /\ kad_files' = DictDel(kad_files, key)
               /\ txt_files' = DictSet(txt_files, key, value.data)
     /\ ev' = Event("rpc_file_store", node_id, key, value, NoResult,
                    [kind |-> "bool", val |-> TRUE], <<w.launched>>)
     /\ UNCHANGED storage

\* rpc_find_file that answers an empty blob for a key without a file
FindFileValueEmpty(key) ==
  IF key \in DOMAIN kad_files THEN Bytes(kad_files[key])
  ELSE IF key \in DOMAIN txt_files THEN Str(ReadText(txt_files[key]))
  ELSE Bytes(<<>>)

\* What rpc_find_file reads from the files.
FindFileValue(key) ==
  IF key \in DOMAIN kad_files THEN Bytes(kad_files[key])
  ELSE IF key \in DOMAIN txt_files THEN Str(ReadText(txt_files[key]))
  ELSE PyNone

\* rpc_find_file that answers without the welcome of its sender
RpcFindFileSkipsWelcome(node_id, key) ==
  /\ ev' = Event("rpc_find_file", node_id, key, PyNone, NoResult,
                 [kind |-> "value", val |-> FindFileValue(key)], <<>>)
  /\ UNCHANGED <<buckets, storage, kad_files, txt_files, inflight>>

RpcFindFile(node_id, key) ==
  LET w == WelcomeIfNew(buckets, storage, node_id)
  IN /\ buckets' = w.buckets
     /\ Launched(<<w.launched>>)
     /\ ev' = Event("rpc_find_file", node_id, key, PyNone, NoResult,
                    [kind |-> "value", val |-> FindFileValue(key)], <<w.launched>>)
     /\ UNCHANGED <<storage, kad_files, txt_files>>

\* The list of rpc_find_node when the sender is not excluded
FindNodeResultKeepsSender(bs, nodeid, key) ==
  [kind |-> "nodes", val |-> FindNeighbors(bs, key, NoId, KSize)]

\* The list rpc_find_node returns, from the table after the admission.
FindNodeResult(bs, nodeid, key) ==
  [kind |-> "nodes", val |-> FindNeighbors(bs, key, nodeid, KSize)]

RpcFindNode(nodeid, key) ==
  LET w == WelcomeIfNew(buckets, storage, nodeid)
  IN /\ buckets' = w.buckets
     /\ Launched(<<w.launched>>)
     /\ ev' = Event("rpc_find_node", nodeid, key, PyNone, NoResult,
                    FindNodeResult(w.buckets, nodeid, key), <<w.launched>>)
     /\ UNCHANGED <<storage, kad_files, txt_files>>

RpcFindValue(nodeid, key) ==
  LET w == WelcomeIfNew(buckets, storage, nodeid)
      value == StorageGet(storage, key, PyNone)
      w2 == WelcomeIfNew(w.buckets, storage, nodeid)
  IN IF value = PyNone
       THEN /\ buckets' = w2.buckets
            /\ Launched(<<w.launched, w2.launched>>)
            /\ ev' = Event("rpc_find_value", nodeid, key, PyNone, NoResult,
                           FindNodeResult(w2.buckets, nodeid, key),
                           <<w.launched, w2.launched>>)
            /\ UNCHANGED <<storage, kad_files, txt_files>>
       ELSE /\ buckets' = w.buckets
            /\ Launched(<<w.launched>>)
            /\ ev' = Event("rpc_find_value", nodeid, key, PyNone, NoResult,
                           [kind |-> "value", val |-> value], <<w.launched>>)
            /\ UNCHANGED <<storage, kad_files, txt_files>>

\* --------------------------------------------------------- outbound calls
\* The transport answers an awaited call with result; the wrapper hands it to
\* handle_call_response and returns what that returns.
CallDone(op, node_to_ask, result) ==
  LET h == HandleCallResponse(buckets, storage, result, node_to_ask)
  IN /\ buckets' = h.buckets
     /\ Launched(<<h.launched>>)
     /\ ev' = Event(op, node_to_ask, NoId, PyNone, result,
                    [kind |-> "result", val |-> h.ret], <<h.launched>>)
     /\ UNCHANGED <<storage, kad_files, txt_files>>

CallFindNode(node_to_ask, result) == CallDone("call_find_node", node_to_ask, result)
CallFindValue(node_to_ask, result) == CallDone("call_find_value", node_to_ask, result)
CallFileValue(node_to_ask, result) == CallDone("call_file_value", node_to_ask, result)
CallPing(node_to_ask, result) == CallDone("call_ping", node_to_ask, result)
CallFileStore(node_to_ask, result) == CallDone("call_file_store", node_to_ask, result)

\* A store call launched by welcome_if_new is answered.
CallStore(call, result) ==
  LET h == HandleCallResponse(buckets, storage, result, call[1])
  IN /\ BagIn(call, inflight)
     /\ buckets' = h.buckets
     /\ inflight' = Launch(inflight (-) SetToBag({call}), h.launched)
     /\ BagCardinality(inflight') <= MaxInflight
     /\ ev' = Event("call_store", call[1], call[2], call[3], result,
                    [kind |-> "result", val |-> h.ret], <<h.launched>>)
     /\ UNCHANGED <<storage, kad_files, txt_files>>

\* The names ev.op takes.
CallOps == {"call_find_node", "call_find_value", "call_file_value", "call_ping",
            "call_file_store", "call_store"}
IdHandlers == {"rpc_ping", "rpc_store", "rpc_file_store", "rpc_find_file",
               "rpc_find_node", "rpc_find_value"}
Handlers == IdHandlers \cup {"rpc_stun"}

\* The operation e observed its node: an inbound request that names its
\* sender, or an outbound call that succeeded.
Observed(e) == e.op \in IdHandlers \/ (e.op \in CallOps /\ e.result[1])

\* --------------------------------------------------------- specifications
\* The identifiers a peer may claim. Three peers: the node's own id, and two
\* ids of the far bucket (at distances 5 and 4 of SelfId).
FewPeers == {0, 1, 5}
\* Four peers: the far bucket overflows with the third of 0, 1 and 3.
SomePeers == {0, 1, 3, 5}
OneKey == {2}
OneValue == {Bytes(<<"x">>)}

\* Every request and every answer, among three peers.
Next ==
  \/ \E sender \in FewPeers : RpcStun(sender)
  \/ \E nodeid \in FewPeers : RpcPing(nodeid)
  \/ \E nodeid \in FewPeers, key \in OneKey, value \in OneValue :
       RpcStore(nodeid, key, value)
  \/ \E nodeid \in FewPeers, key \in FileKeys, value \in OneValue :
       RpcFileStore(nodeid, key, value)
  \/ \E nodeid \in FewPeers, key \in FileKeys : RpcFindFile(nodeid, key)
  \/ \E nodeid \in FewPeers, key \in OneKey : RpcFindNode(nodeid, key)
  \/ \E nodeid \in FewPeers, key \in OneKey : RpcFindValue(nodeid, key)
  \/ \E node \in FewPeers, result \in Results : CallFindNode(node, result)
  \/ \E node \in FewPeers, result \in Results : CallFindValue(node, result)
  \/ \E node \in FewPeers, result \in Results : CallFileValue(node, result)
  \/ \E node \in FewPeers, result \in Results : CallPing(node, result)
  \/ \E node \in FewPeers, result \in Results : CallFileStore(node, result)
  \/ \E call \in DOMAIN inflight, result \in Results : CallStore(call, result)

Spec == Init /\ [][Next]_vars

\* The inbound requests only, among four peers, and the answers to the store
\* calls they launch.
NextInbound ==
  \/ \E sender \in SomePeers : RpcStun(sender)
  \/ \E nodeid \in SomePeers : RpcPing(nodeid)
  \/ \E nodeid \in SomePeers, key \in OneKey, value \in OneValue :
       RpcStore(nodeid, key, value)
  \/ \E nodeid \in SomePeers, key \in FileKeys, value \in OneValue :
       RpcFileStore(nodeid, key, value)
  \/ \E nodeid \in SomePeers, key \in FileKeys : RpcFindFile(nodeid, key)
  \/ \E nodeid \in SomePeers, key \in OneKey : RpcFindNode(nodeid, key)
  \/ \E nodeid \in SomePeers, key \in OneKey : RpcFindValue(nodeid, key)
  \/ \E call \in DOMAIN inflight, result \in Results : CallStore(call, result)

SpecInbound == Init /\ [][NextInbound]_vars

\* One key is stored and either key is looked up, among four peers, and the
\* store calls are answered.
NextLookup ==
  \/ \E nodeid \in SomePeers : RpcPing(nodeid)
  \/ \E nodeid \in SomePeers, key \in OneKey, value \in OneValue :
       RpcStore(nodeid, key, value)
  \/ \E nodeid \in SomePeers, key \in Keys : RpcFindValue(nodeid, key)
  \/ \E call \in DOMAIN inflight, result \in Results : CallStore(call, result)

SpecLookup == Init /\ [][NextLookup]_vars

\* The table fills and splits, and the refresh ids are asked for.
NextRefresh ==
  \/ \E nodeid \in SomePeers : RpcPing(nodeid)
  \/ \E lonely \in SUBSET (1 .. Len(buckets)) :
       \E draw \in [lonely -> IdSpace] : GetRefreshIds(lonely, draw)

SpecRefresh == Init /\ [][NextRefresh]_vars

\* The key/value requests, with every value.
NextStore ==
  \/ \E nodeid \in FewPeers, key \in Keys, value \in Values :
       RpcStore(nodeid, key, value)
  \/ \E nodeid \in FewPeers, key \in Keys : RpcFindValue(nodeid, key)
  \/ \E call \in DOMAIN inflight, result \in Results : CallStore(call, result)

SpecStore == Init /\ [][NextStore]_vars

\* The blob requests, with binary and text values.
NextBlob ==
  \/ \E nodeid \in FewPeers, key \in FileKeys, value \in BlobValues :
       RpcFileStore(nodeid, key, value)
  \/ \E nodeid \in FewPeers, key \in FileKeys : RpcFindFile(nodeid, key)

SpecBlob == Init /\ [][NextBlob]_vars

\* ----------------------------------------------------------------- claims
\* C1. Eviction on failure: when an outbound call to a contact of the table
\* comes back not succeeded, the contact is no longer in the table when
\* handle_call_response returns: is_new_node is true of its id.
EvictionOnFailure ==
  (ev.op \in CallOps /\ ~ev.result[1] /\ ~ev.wasNew) => IsNewNode(buckets, ev.node)

\* A contact that was in the table has just been evicted by a failed call.
EvictionWitness ==
  /\ ev.op = "call_find_node" /\ ~ev.result[1] /\ ~ev.wasNew
  /\ IsNewNode(buckets, ev.node)
  /\ Contacts(buckets) # {}

\* C5. Provenance: every contact that enters the routing table in a step is the
\* sender named by the inbound request handled in that step, or the target of
\* the succeeded outbound call handled in that step; the table starts empty,
\* so every contact in it has had such an exchange.
Provenance ==
  [][\A c \in Contacts(buckets') \ Contacts(buckets) :
       ev'.node = c /\ Observed(ev')]_vars

\* A contact entered the table through a succeeded outbound call.
ProvenanceWitness ==
  /\ ev.op = "call_ping" /\ ev.result[1] /\ ev.wasNew
  /\ ev.node \in Contacts(buckets)

\* C8. Pass-through: every outbound wrapper returns the transport's result as
\* it got it, succeeded or not, and as a result rather than a raised fault.
PassThrough ==
  ev.op \in CallOps => (ev.ret.kind = "result" /\ ev.ret.val = ev.result)

\* A failed answer to a launched store call was returned unchanged.
PassThroughWitness ==
  /\ ev.op = "call_store" /\ ~ev.result[1]
  /\ ev.ret.kind = "result" /\ ev.ret.val = ev.result

\* C2. Admission idempotence: of two pings in succession from the same sender
\* (each is one welcome_if_new and nothing else), at most one launches store
\* calls, whatever the state of the table.
AdmissionIdempotence ==
  [][(ev.op = "rpc_ping" /\ ev'.op = "rpc_ping" /\ ev'.node = ev.node)
       => (ev.passes[1] = <<>> \/ ev'.passes[1] = <<>>)]_vars

\* The replication rule as the claim words it: the distances are those to the
\* key K itself.
ClaimedRule(bs, node, key) ==
  LET neighbors == FindNeighbors(bs, key, NoId, KSize)
  IN \/ neighbors = <<>>
     \/ /\ Distance(node, key) < Distance(neighbors[Len(neighbors)], key)
        /\ Distance(SelfId, key) < Distance(neighbors[1], key)

\* C3. Replication rule: when a new contact C is observed, a store call for a
\* held key K is launched to C exactly when no neighbour of K is known, or C
\* is strictly closer to K than the farthest neighbour found and the node
\* itself is strictly closer to K than the nearest one.
ReplicationRule ==
  [][(Observed(ev') /\ ev'.wasNew) =>
       \A k \in DOMAIN storage :
         (\E i \in 1 .. Len(ev'.passes[1]) :
            ev'.passes[1][i][1] = ev'.node /\ ev'.passes[1][i][2] = k)
         <=> ClaimedRule(buckets, ev'.node, k)]_vars

\* C4. find_value precedence: rpc_find_value for a key of the store returns
\* {value: the stored value}, never the list of neighbours, whatever the
\* value is.
FindValuePrecedence ==
  (ev.op = "rpc_find_value" /\ ev.key \in DOMAIN storage)
    => (ev.ret.kind = "value" /\ ev.ret.val = storage[ev.key])

\* C6. Self-exclusion: the node's own id is never a contact of its own table.
SelfExclusion == SelfId \notin Contacts(buckets)

\* C7 as amended. Admission by the handlers that carry a claimed id: after
\* ping, store, find_node, find_value, blob-store or blob-find from a peer
\* that was unknown and whose bucket had a free place, the peer is a contact;
\* after stun from an unknown peer, the peer is still unknown.
AdmissionByIdHandlers ==
  /\ (ev.op \in IdHandlers /\ ev.wasNew /\ ev.hadRoom) => ev.node \in Contacts(buckets)
  /\ (ev.op = "rpc_stun" /\ ev.wasNew) => IsNewNode(buckets, ev.node)

\* An unknown peer was admitted by a blob-find.
AdmissionWitness ==
  /\ ev.op = "rpc_find_file" /\ ev.wasNew /\ ev.hadRoom
  /\ ev.node \in Contacts(buckets)

\* C7 as stated. Universal admission: after any inbound request, stun too,
\* from a peer that was unknown and whose bucket had a free place, the peer
\* is a contact.
UniversalAdmission ==
  (ev.op \in Handlers /\ ev.wasNew /\ ev.hadRoom) => ev.node \in Contacts(buckets)

\* C9. Blob round trip: a blob-find that follows a blob-store of V under the
\* same key returns {value: V}, whatever was stored under the key before.
BlobRoundTrip ==
  [][(ev.op = "rpc_file_store" /\ ev'.op = "rpc_find_file" /\ ev'.key = ev.key)
       => (ev'.ret.kind = "value" /\ ev'.ret.val = ev.value)]_vars

\* C10. Store last-write-wins: rpc_store returns true and puts its value under
\* its key, nothing else changes the store, and rpc_find_value for a stored
\* key returns {value: V} with V the value stored last under it.
StoreLastWriteWins ==
  [][/\ ev'.op = "rpc_store" =>
          /\ ev'.ret.kind = "bool" /\ ev'.ret.val = TRUE
          /\ storage' = DictSet(storage, ev'.key, ev'.value)
     /\ ev'.op # "rpc_store" => storage' = storage
     /\ (ev'.op = "rpc_find_value" /\ ev'.key \in DOMAIN storage) =>
          (ev'.ret.kind = "value" /\ ev'.ret.val = storage[ev'.key])]_vars

\* C11. find_node answer: rpc_find_node returns at most k contacts, in
\* ascending order of distance to the requested key, and its sender is not
\* among them although the same request admitted it to the table.
FindNodeAnswer ==
  ev.op = "rpc_find_node" =>
    /\ ev.ret.kind = "nodes"
    /\ Len(ev.ret.val) <= KSize
    /\ \A i \in 1 .. Len(ev.ret.val) - 1 :
         Distance(ev.ret.val[i], ev.key) < Distance(ev.ret.val[i + 1], ev.key)
    /\ \A i \in 1 .. Len(ev.ret.val) : ev.ret.val[i] # ev.node

\* A find_node from a peer it admitted was answered with a full list.
FindNodeWitness ==
  /\ ev.op = "rpc_find_node" /\ ev.wasNew
  /\ ev.node \in Contacts(buckets)
  /\ Len(ev.ret.val) = KSize

\* C12. Refresh targets: get_refresh_ids returns one identifier for each
\* lonely bucket, each within the range of its bucket, and leaves the routing
\* table and the key/value store as they were.
RefreshTargets ==
  [][ev'.op = "get_refresh_ids" =>
       /\ ev'.ret.kind = "ids"
       /\ Len(ev'.ret.val) = Len(ev'.lonely)
       /\ \A i \in 1 .. Len(ev'.lonely) :
            /\ buckets[ev'.lonely[i]].lo <= ev'.ret.val[i]
            /\ ev'.ret.val[i] <= buckets[ev'.lonely[i]].hi
       /\ buckets' = buckets
       /\ storage' = storage]_vars

\* The table has split and identifiers were returned for both its buckets.
RefreshWitness ==
  /\ ev.op = "get_refresh_ids" /\ ev.ret.kind = "ids"
  /\ Len(ev.lonely) = 2 /\ Len(ev.ret.val) = 2
  /\ Len(buckets) = 2

\* C13. Blob not-found is a value: rpc_find_file for a key with neither a
\* .kad nor a .txt file answers {value: None} instead of failing, and its
\* sender has gone through the admission all the same (it is in the table
\* unless its bucket had no room for it).
BlobNotFound ==
  (/\ ev.op = "rpc_find_file"
   /\ ev.key \notin DOMAIN kad_files
   /\ ev.key \notin DOMAIN txt_files) =>
    /\ ev.ret = [kind |-> "value", val |-> PyNone]
    /\ (ev.hadRoom \/ ~ev.wasNew) => ev.node \in Contacts(buckets)

\* An unknown peer asked for a blob nobody stored, and is now a contact.
BlobNotFoundWitness ==
  /\ ev.op = "rpc_find_file" /\ ev.wasNew
  /\ ev.key \notin DOMAIN kad_files /\ ev.key \notin DOMAIN txt_files
  /\ ev.ret.val = PyNone
  /\ ev.node \in Contacts(buckets)

\* C14. Known-contact refresh: when a contact of the table is observed again
\* (inbound request or succeeded outbound call), no store call is launched
\* and the contact is moved to the most-recently-seen end of its bucket.
KnownContactRefresh ==
  (Observed(ev) /\ ~ev.wasNew) =>
    LET nodes == buckets[GetBucketFor(buckets, ev.node)].nodes
    IN /\ \A i \in 1 .. Len(ev.passes) : ev.passes[i] = <<>>
       /\ nodes # <<>>
       /\ nodes[Len(nodes)] = ev.node

\* The neighbours of the key node of a held key in the table bs.
SnapshotNeighbors(bs, key) == FindNeighbors(bs, Digest(key), NoId, KSize)

\* The decision of welcome_if_new for a held key, taken on the table bs.
SnapshotRule(bs, node, key) ==
  LET neighbors == SnapshotNeighbors(bs, key)
  IN \/ neighbors = <<>>
     \/ /\ Distance(node, Digest(key)) <
             Distance(neighbors[Len(neighbors)], Digest(key))
        /\ Distance(SelfId, Digest(key)) < Distance(neighbors[1], Digest(key))

\* C15. Decide-then-insert: when a new contact is observed, the decision for
\* every held key is the one taken on the table as it was before the contact
\* was added, the contact is not among the neighbours it is compared with,
\* and the table after the invocation is that table with the contact added.
DecideThenInsert ==
  [][(Observed(ev') /\ ev'.wasNew) =>
       /\ \A k \in DOMAIN storage :
            /\ (<<ev'.node, k, storage[k]>> \in SeqToSet(ev'.passes[1]))
                 <=> SnapshotRule(buckets, ev'.node, k)
            /\ ev'.node \notin SeqToSet(SnapshotNeighbors(buckets, k))
       /\ Len(ev'.passes[1]) <= Cardinality(DOMAIN storage)
       /\ Len(ev'.passes) = 1 => buckets' = AddContact(buckets, ev'.node)]_vars

\* With both keys held and another contact known, a new contact was admitted
\* and sent one of the two keys only.
DecideThenInsertWitness ==
  /\ Observed(ev) /\ ev.wasNew /\ ev.op # "rpc_store"
  /\ DOMAIN storage = Keys
  /\ Len(ev.passes[1]) = 1
  /\ ev.node \in Contacts(buckets)
  /\ Cardinality(Contacts(buckets)) >= 2

\* C16 as amended. Isolated failure of replication calls: every store call
\* launched by an observation is addressed to the contact observed, the new
\* one; when one of the calls in flight fails, that contact and no other
\* leaves the table, so the failure does undo the admission of the new
\* contact, the store is unchanged and the other calls stay in flight.
IsolatedFailure ==
  [][/\ \A i \in 1 .. Len(ev'.passes) : \A j \in 1 .. Len(ev'.passes[i]) :
          ev'.passes[i][j][1] = ev'.node /\ ev'.wasNew
     /\ (ev'.op = "call_store" /\ ~ev'.result[1]) =>
          /\ Contacts(buckets') = Contacts(buckets) \ {ev'.node}
          /\ storage' = storage
          /\ inflight' (+) SetToBag({<<ev'.node, ev'.key, ev'.value>>}) = inflight]_vars

\* A store call failed while another was in flight: its target, a contact
\* until then, has left the table and the other contacts are still there.
IsolatedFailureWitness ==
  /\ ev.op = "call_store" /\ ~ev.result[1] /\ ~ev.wasNew
  /\ ev.node \notin Contacts(buckets)
  /\ Contacts(buckets) # {}
  /\ BagCardinality(inflight) >= 1

\* C16 as stated. The failure of a store call in flight leaves the contact
\* admitted with it in the table, and changes neither another contact nor
\* the store.
FailureKeepsAdmission ==
  [][(ev'.op = "call_store" /\ ~ev'.result[1]) =>
       /\ ev'.node \in Contacts(buckets) => ev'.node \in Contacts(buckets')
       /\ Contacts(buckets') \ {ev'.node} = Contacts(buckets) \ {ev'.node}
       /\ storage' = storage]_vars

\* C17. Replication distance reference: for every held key K, the contacts
\* the replication decision ranks are ranked by their distance to K itself:
\* they are, in the same order, the contacts rpc_find_node answers when asked
\* for K.
ReplicationReference ==
  \A k \in DOMAIN storage :
    KeyNeighbors(buckets, k) = FindNodeResult(buckets, NoId, k).val

\* C18. Replication quiescence: the replication an observation triggers comes
\* to an end when its store calls succeed, because a succeeded store response
\* launches no further store call to the contact that answered.
ReplicationQuiescence ==
  (ev.op = "call_store" /\ ev.result[1]) =>
    \A i \in 1 .. Len(ev.passes) : \A j \in 1 .. Len(ev.passes[i]) :
      ev.passes[i][j][1] # ev.node

\* C19. At most one replication pass per inbound request: the handling of one
\* inbound request, a find_value that falls through to find_node included,
\* launches at most one store call per held key to its sender.
OnePassPerRequest ==
  ev.op \in IdHandlers =>
    \A k \in Keys :
      Cardinality({p \in (1 .. Len(ev.passes)) \X (1 .. MaxInflight) :
                    /\ p[2] <= Len(ev.passes[p[1]])
                    /\ ev.passes[p[1]][p[2]][2] = k}) <= 1

\* C20. No echo of an incoming store: rpc_store(K, V) from an unknown sender,
\* for a key K the node did not hold, launches no store call for K; every
\* call it launches is to that sender, for a key held before the request and
\* with the value held for it, and K is held afterwards.
NoEchoOfStore ==
  [][(ev'.op = "rpc_store" /\ ev'.wasNew /\ ev'.key \notin DOMAIN storage) =>
       /\ \A j \in 1 .. Len(ev'.passes[1]) :
            /\ ev'.passes[1][j][2] # ev'.key
            /\ ev'.passes[1][j][2] \in DOMAIN storage
            /\ ev'.passes[1][j] =
                 <<ev'.node, ev'.passes[1][j][2], storage[ev'.passes[1][j][2]]>>
       /\ Len(ev'.passes) = 1
       /\ ev'.key \in DOMAIN storage'
       /\ storage'[ev'.key] = ev'.value]_vars

\* The first contact of an empty table stored the first key of the node and
\* was sent nothing, although every held key goes to the first contact.
NoEchoWitness ==
  /\ ev.op = "rpc_store" /\ ev.wasNew
  /\ Contacts(buckets) = {ev.node}
  /\ DOMAIN storage = {ev.key}
  /\ ev.passes = << <<>> >>
  /\ inflight = EmptyBag

====
